---- MODULE Spec2Model ----
(***************************************************************************)
(* Authentication / session subsystem of the data-hub backend:             *)
(*   internal/auth/usecase/usecase.go     the orchestrator (authUsecase)   *)
(*   unnamed/part_009                     domain entities + Postgres repos *)
(*   infrastructure/security/jwt.go       the token issuer (JWTManager)    *)
(*   unnamed/part_002                     the credential hasher            *)
(*                                                                         *)
(* Time is counted in whole clock ticks of jwt.TimePrecision (one second): *)
(* a NumericDate is the tick of its instant.  Durations are scaled to a    *)
(* few ticks, keeping their order (access expiry < refresh expiry =        *)
(* session lifetime in the default configuration).                         *)
(*                                                                         *)
(* A token string is modelled by what it encodes: the header's algorithm,  *)
(* the signing key and the claims.  HMAC signing is deterministic, so two  *)
(* tokens with equal content are the same string.                          *)
(*                                                                         *)
(* The tokens table is a sequence in created_at order.  A row that a       *)
(* DELETE removed stays in the sequence with its ghost field "deleted"     *)
(* set; every query skips such rows.                                       *)
(***************************************************************************)
EXTENDS Integers, Sequences, FiniteSets, TLC

(* ------------------------------ bounds --------------------------------- *)

\* the clock stops after this many ticks
MaxTime == 3

\* rows ever inserted into the tokens table
MaxTokens == 2

\* rows ever inserted into the users table
MaxUsers == 2

\* request goroutines that run concurrently under SpecConc
MaxProcs == 2

(* --------------------------- configuration ----------------------------- *)

\* JWT_ACCESS_EXPIRY default (15 minutes), in ticks
DefaultAccessExpiry == 1

\* JWT_REFRESH_EXPIRY default (7 days), in ticks
DefaultRefreshExpiry == 2

\* the session lifetime hard-coded by Login, Register and RefreshToken
\* (24 * time.Hour * 7), in ticks
SessionTTL == 2

\* a JWT_ACCESS_EXPIRY override that outlives the session row
LongAccessExpiry == 4

\* a JWT_REFRESH_EXPIRY override shorter than the session row's lifetime
ShortRefreshExpiry == 1

\* minimum password length of PasswordHandler.Hash
MinPasswordLen == 8

Secret == "change-me-in-production"

Issuer == "portal-data-backend"

\* config.JWTConfig values the process may be started with
JWTConfigs ==
    { [access_expiry |-> DefaultAccessExpiry, refresh_expiry |-> DefaultRefreshExpiry],
      [access_expiry |-> LongAccessExpiry, refresh_expiry |-> ShortRefreshExpiry] }

(* ------------------------------ state ---------------------------------- *)

VARIABLES
    users,      \* the users table: a sequence of User rows, index = insertion order
    tokens,     \* the tokens table: a sequence of Token rows in created_at order
    now,        \* the clock, in ticks
    cfg,        \* the JWTConfig the JWTManager was built from
    procs,      \* the frame of each request goroutine
    last        \* the call that returned and whose response is not yet written:
                \* its operation, arguments, error and result (Idle when none)

vars == <<users, tokens, now, cfg, procs, last>>

(* --------------------------- pkg/errors -------------------------------- *)

\* An error is the chain of its messages, outermost first; a sentinel is a
\* chain of one.  nil is the empty chain.
Nil == <<>>

ErrNotFound == <<"resource not found">>
ErrInvalidCredentials == <<"invalid credentials">>
ErrInvalidToken == <<"invalid token">>
ErrTokenExpired == <<"token expired">>
ErrTokenRevoked == <<"token revoked">>
ErrUserDisabled == <<"user is disabled">>
ErrEmailTaken == <<"email already taken">>
ErrUsernameTaken == <<"username already taken">>
ErrPasswordTooShort == <<"password must be at least 8 characters">>

\* database/sql's sql.ErrNoRows, what sqlx GetContext returns for an empty result
SqlErrNoRows == <<"sql: no rows in result set">>

\* fmt.Errorf("%s: %w", message, err)
Wrap(err, message) == IF err = Nil THEN Nil ELSE <<message>> \o err

\* errors.Is: target is err or is wrapped by it
Is(err, target) ==
    /\ err # Nil
    /\ \E i \in 1..Len(err) : SubSeq(err, i, Len(err)) = target

(* ------------------------- credential hasher --------------------------- *)

\* bcrypt of a password: the hash determines exactly the password it verifies
BcryptOf(password) == <<"bcrypt", password>>

Hash(password) ==
    IF Len(password) < MinPasswordLen
    THEN [hash |-> "", err |-> ErrPasswordTooShort]
    ELSE [hash |-> BcryptOf(password), err |-> Nil]

Verify(password, hash) == hash = BcryptOf(password)

(* ------------------------------ domain --------------------------------- *)

UserStatusActive == "active"
UserStatusInactive == "inactive"
UserStatusSuspended == "suspended"
UserStatusDeleted == "deleted"

IsActive(u) == u.status = UserStatusActive

\* a faulty IsExpired, which takes the instant of expiry as already past it
IsExpiredAtExpiry(t, time) == time >= t.expires_at

\* Token.IsExpired: time.Now().After(t.ExpiresAt)
IsExpired(t, time) == time > t.expires_at

\* Token.IsValid
IsValid(t, time) == ~t.revoked /\ ~IsExpired(t, time)

\* the nil *Token / *User
NoRow == [id |-> 0]

(* ---------------------------- token issuer ----------------------------- *)

HS256 == "HS256"

\* SigningMethodHS256/384/512 are all values of type *jwt.SigningMethodHMAC
HMACMethods == {"HS256", "HS384", "HS512"}

\* jwt.NewWithClaims(method, claims).SignedString(key)
SignedString(method, key, userID, organizationID, roleID, email, issuedAt, expiresAt) ==
    [alg |-> method, key |-> key,
     user_id |-> userID, organization_id |-> organizationID,
     role_id |-> roleID, email |-> email,
     iss |-> Issuer, sub |-> userID,
     exp |-> expiresAt, iat |-> issuedAt, nbf |-> issuedAt]

generateAccessToken(c, time, u) ==
    SignedString(HS256, Secret, u.id, u.organization_id, u.role_id, u.email,
                 time, time + c.access_expiry)

generateRefreshToken(c, time, u) ==
    SignedString(HS256, Secret, u.id, u.organization_id, u.role_id, u.email,
                 time, time + c.refresh_expiry)

GenerateTokenPair(c, time, u) ==
    [access_token |-> generateAccessToken(c, time, u),
     refresh_token |-> generateRefreshToken(c, time, u),
     expires_in |-> c.access_expiry,
     token_type |-> "Bearer"]

NoClaims == [user_id |-> 0]

\* the empty token string
EmptyToken == [len |-> 0]

\* a token string that is not three base64url segments of JSON
GarbageToken == [len |-> 9, text |-> "not.a.jwt"]

IsMalformed(tokenString) == "alg" \notin DOMAIN tokenString

\* a faulty ValidateToken, which validates the claims before the signature
JWTValidateClaimsFirst(tokenString, time) ==
    IF tokenString = EmptyToken THEN [claims |-> NoClaims, err |-> ErrInvalidToken]
    ELSE IF IsMalformed(tokenString) THEN [claims |-> NoClaims, err |-> ErrInvalidToken]
    ELSE IF ~(time < tokenString.exp) THEN [claims |-> NoClaims, err |-> ErrTokenExpired]
    ELSE IF tokenString.alg \notin HMACMethods THEN [claims |-> NoClaims, err |-> ErrInvalidToken]
    ELSE IF tokenString.key # Secret THEN [claims |-> NoClaims, err |-> ErrInvalidToken]
    ELSE IF time < tokenString.nbf \/ time < tokenString.iat
         THEN [claims |-> NoClaims, err |-> ErrInvalidToken]
    ELSE [claims |-> [user_id |-> tokenString.user_id,
                      organization_id |-> tokenString.organization_id,
                      role_id |-> tokenString.role_id,
                      email |-> tokenString.email],
          err |-> Nil]

\* JWTManager.ValidateToken.  jwt.ParseWithClaims runs the key function (the
\* method check), then verifies the signature, then validates exp/nbf/iat
\* (valid while now < exp and now >= nbf).
JWTValidateToken(tokenString, time) ==
    IF tokenString = EmptyToken THEN [claims |-> NoClaims, err |-> ErrInvalidToken]
    ELSE IF IsMalformed(tokenString) THEN [claims |-> NoClaims, err |-> ErrInvalidToken]
    ELSE IF tokenString.alg \notin HMACMethods THEN [claims |-> NoClaims, err |-> ErrInvalidToken]
    ELSE IF tokenString.key # Secret THEN [claims |-> NoClaims, err |-> ErrInvalidToken]
    ELSE IF ~(time < tokenString.exp) THEN [claims |-> NoClaims, err |-> ErrTokenExpired]
    ELSE IF time < tokenString.nbf \/ time < tokenString.iat
         THEN [claims |-> NoClaims, err |-> ErrInvalidToken]
    ELSE [claims |-> [user_id |-> tokenString.user_id,
                      organization_id |-> tokenString.organization_id,
                      role_id |-> tokenString.role_id,
                      email |-> tokenString.email],
          err |-> Nil]

(* ------------------------ users repository ----------------------------- *)

\* userPostgresRepository.handleError
userHandleError(err) == Wrap(err, "database error")

\* the rows a SELECT ... WHERE status != 'deleted' sees
LiveUsers(tbl) == {i \in 1..Len(tbl) : tbl[i].status # UserStatusDeleted}

\* sqlx GetContext over the rows `hits` of `tbl`: the first row, or sql.ErrNoRows
GetRow(tbl, hits) ==
    IF hits = {} THEN [row |-> NoRow, err |-> SqlErrNoRows]
    ELSE [row |-> tbl[CHOOSE i \in hits : \A j \in hits : i <= j], err |-> Nil]

GetUserByID(tbl, id) ==
    LET r == GetRow(tbl, {i \in LiveUsers(tbl) : tbl[i].id = id})
    IN  [user |-> r.row, err |-> userHandleError(r.err)]

GetUserByEmail(tbl, email) ==
    LET r == GetRow(tbl, {i \in LiveUsers(tbl) : tbl[i].email = email})
    IN  [user |-> r.row, err |-> userHandleError(r.err)]

IsEmailExists(tbl, email) == \E i \in LiveUsers(tbl) : tbl[i].email = email

IsUsernameExists(tbl, username) == \E i \in LiveUsers(tbl) : tbl[i].username = username

\* INSERT INTO users
CreateUser(tbl, user) == Append(tbl, user)

\* the user module's UpdateStatus: UPDATE users SET status = $1 WHERE id = $2
UpdateStatus(tbl, id, status) ==
    [i \in 1..Len(tbl) |-> IF tbl[i].id = id THEN [tbl[i] EXCEPT !.status = status] ELSE tbl[i]]

(* ------------------------ tokens repository ---------------------------- *)

\* tokenPostgresRepository.handleError
tokenHandleError(err) == Wrap(err, "database error")

\* the rows still in the table
Rows(tbl) == {i \in 1..Len(tbl) : ~tbl[i].deleted}

\* ... ORDER BY created_at DESC LIMIT 1 over the rows `hits`
NewestRow(tbl, hits) ==
    IF hits = {} THEN [row |-> NoRow, err |-> SqlErrNoRows]
    ELSE [row |-> tbl[CHOOSE i \in hits : \A j \in hits : i >= j], err |-> Nil]

\* INSERT INTO tokens
CreateToken(tbl, token) == Append(tbl, token)

GetTokenByRefreshToken(tbl, refreshToken) ==
    LET r == NewestRow(tbl, {i \in Rows(tbl) : tbl[i].refresh_token = refreshToken})
    IN  [token |-> r.row, err |-> tokenHandleError(r.err)]

GetTokenByAccessToken(tbl, accessToken) ==
    LET r == NewestRow(tbl, {i \in Rows(tbl) : tbl[i].access_token = accessToken})
    IN  [token |-> r.row, err |-> tokenHandleError(r.err)]

\* a faulty RevokeToken, whose UPDATE flips the flag (SET revoked = NOT revoked)
RevokeTokenFlip(tbl, id) ==
    LET hit == {i \in Rows(tbl) : tbl[i].id = id}
    IN  [tokens |-> [i \in 1..Len(tbl) |->
                        IF i \in hit THEN [tbl[i] EXCEPT !.revoked = ~tbl[i].revoked] ELSE tbl[i]],
         err |-> IF hit = {} THEN ErrNotFound ELSE Nil]

\* a faulty RevokeToken, whose UPDATE matches only rows not yet revoked
RevokeTokenIfActive(tbl, id) ==
    LET hit == {i \in Rows(tbl) : tbl[i].id = id /\ ~tbl[i].revoked}
    IN  [tokens |-> [i \in 1..Len(tbl) |->
                        IF i \in hit THEN [tbl[i] EXCEPT !.revoked = TRUE] ELSE tbl[i]],
         err |-> IF hit = {} THEN ErrNotFound ELSE Nil]

\* UPDATE tokens SET revoked = true WHERE id = $1; ErrNotFound when no row matched
RevokeToken(tbl, id) ==
    LET hit == {i \in Rows(tbl) : tbl[i].id = id}
    IN  [tokens |-> [i \in 1..Len(tbl) |->
                        IF i \in hit THEN [tbl[i] EXCEPT !.revoked = TRUE] ELSE tbl[i]],
         err |-> IF hit = {} THEN ErrNotFound ELSE Nil]

\* a faulty RevokeUserTokens, which revokes only the user's newest row
RevokeNewestUserToken(tbl, userID) ==
    LET r == NewestRow(tbl, {i \in Rows(tbl) : tbl[i].user_id = userID})
    IN  [i \in 1..Len(tbl) |->
            IF tbl[i] = r.row THEN [tbl[i] EXCEPT !.revoked = TRUE] ELSE tbl[i]]

\* UPDATE tokens SET revoked = true WHERE user_id = $1
RevokeUserTokens(tbl, userID) ==
    [i \in 1..Len(tbl) |->
        IF i \in Rows(tbl) /\ tbl[i].user_id = userID
        THEN [tbl[i] EXCEPT !.revoked = TRUE] ELSE tbl[i]]

\* DELETE FROM tokens WHERE expires_at < NOW() OR revoked = true
CleanupExpiredTokens(tbl, time) ==
    [i \in 1..Len(tbl) |->
        IF i \in Rows(tbl) /\ (tbl[i].expires_at < time \/ tbl[i].revoked)
        THEN [tbl[i] EXCEPT !.deleted = TRUE] ELSE tbl[i]]

\* uuid.New(): an ID no row of the table has
NewUUID(tbl) == Len(tbl) + 1

(* --------------------------- orchestrator ------------------------------ *)

\* A frame is one running call: the operation, the store call it is about
\* to make (pc), its arguments, its locals, and once it returned (pc = "done")
\* its error and result.  A step of a call is one store call together with
\* the code that follows it up to the next store call; the code before the
\* first store call belongs to the first step.  W is the database
\* [users, tokens], `time` the value of time.Now(), c the JWT configuration.

Idle == [op |-> "none", pc |-> "idle"]

NoOut == [token_type |-> ""]

Call(op, pc, arg) == [op |-> op, pc |-> pc, arg |-> arg, loc |-> NoRow]

Return(f, W, err, out) ==
    [f |-> [op |-> f.op, pc |-> "done", arg |-> f.arg, err |-> err, out |-> out],
     W |-> W]

Goto(f, W, pc, loc) == [f |-> [f EXCEPT !.pc = pc, !.loc = loc], W |-> W]

ToUserInfo(u) ==
    [id |-> u.id, organization_id |-> u.organization_id, role_id |-> u.role_id,
     username |-> u.username, email |-> u.email]

AuthResponse(user, tokenPair) ==
    [user |-> ToUserInfo(user),
     access_token |-> tokenPair.access_token,
     refresh_token |-> tokenPair.refresh_token,
     expires_in |-> tokenPair.expires_in,
     token_type |-> tokenPair.token_type]

\* a faulty NewToken, which builds the session already revoked
NewTokenRevoked(user, tokenPair, time) ==
    [id |-> 0,
     user_id |-> user.id,
     access_token |-> tokenPair.access_token,
     refresh_token |-> tokenPair.refresh_token,
     expires_at |-> time + SessionTTL,
     revoked |-> TRUE,
     deleted |-> FALSE]

\* the domain.Token the handlers build for a fresh token pair; its ID is
\* drawn by uuid.New() (NewUUID, when the row is inserted)
NewToken(user, tokenPair, time) ==
    [id |-> 0,
     user_id |-> user.id,
     access_token |-> tokenPair.access_token,
     refresh_token |-> tokenPair.refresh_token,
     expires_at |-> time + SessionTTL,
     revoked |-> FALSE,
     deleted |-> FALSE]

\* tokenRepo.CreateToken of the frame's new token, then the handler's return
StoreToken(f, W) ==
    Return(f,
           [W EXCEPT !.tokens = CreateToken(W.tokens,
                                    [f.loc.token EXCEPT !.id = NewUUID(W.tokens)])],
           Nil,
           AuthResponse(f.loc.user, f.loc.tokenPair))

(* Login *)

\* a faulty Login, which looks at the status before it verifies the password
LoginStatusBeforePassword(f, W, time, c) ==
    LET r == GetUserByEmail(W.users, f.arg.email) IN
    IF r.err # Nil THEN
        IF Is(r.err, ErrNotFound)
        THEN Return(f, W, ErrInvalidCredentials, NoOut)
        ELSE Return(f, W, Wrap(r.err, "failed to get user"), NoOut)
    ELSE IF ~IsActive(r.user)
        THEN Return(f, W, ErrUserDisabled, NoOut)
    ELSE IF ~Verify(f.arg.password, r.user.password_hash)
        THEN Return(f, W, ErrInvalidCredentials, NoOut)
    ELSE LET tokenPair == GenerateTokenPair(c, time, r.user) IN
         Goto(f, W, "Login:CreateToken",
              [user |-> r.user, tokenPair |-> tokenPair,
               token |-> NewToken(r.user, tokenPair, time)])

LoginGetUserByEmail(f, W, time, c) ==
    LET r == GetUserByEmail(W.users, f.arg.email) IN
    IF r.err # Nil THEN
        IF Is(r.err, ErrNotFound)
        THEN Return(f, W, ErrInvalidCredentials, NoOut)
        ELSE Return(f, W, Wrap(r.err, "failed to get user"), NoOut)
    ELSE IF ~Verify(f.arg.password, r.user.password_hash)
        THEN Return(f, W, ErrInvalidCredentials, NoOut)
    ELSE IF ~IsActive(r.user)
        THEN Return(f, W, ErrUserDisabled, NoOut)
    ELSE LET tokenPair == GenerateTokenPair(c, time, r.user) IN
         Goto(f, W, "Login:CreateToken",
              [user |-> r.user, tokenPair |-> tokenPair,
               token |-> NewToken(r.user, tokenPair, time)])

LoginCreateToken(f, W, time, c) == StoreToken(f, W)

(* Register *)

\* a faulty Register, which does not look the email up
RegisterSkipEmailCheck(f, W, time, c) ==
    Goto(f, W, "Register:IsUsernameExists", NoRow)

RegisterIsEmailExists(f, W, time, c) ==
    IF IsEmailExists(W.users, f.arg.email)
    THEN Return(f, W, ErrEmailTaken, NoOut)
    ELSE Goto(f, W, "Register:IsUsernameExists", NoRow)

RegisterIsUsernameExists(f, W, time, c) ==
    IF IsUsernameExists(W.users, f.arg.username)
    THEN Return(f, W, ErrUsernameTaken, NoOut)
    ELSE LET h == Hash(f.arg.password) IN
         IF h.err # Nil
         THEN Return(f, W, Wrap(h.err, "failed to hash password"), NoOut)
         ELSE Goto(f, W, "Register:CreateUser",
                   [user |-> [id |-> 0,
                              organization_id |-> f.arg.organization_id,
                              role_id |-> f.arg.role_id,
                              username |-> f.arg.username,
                              email |-> f.arg.email,
                              password_hash |-> h.hash,
                              status |-> UserStatusActive]])

RegisterCreateUser(f, W, time, c) ==
    LET user == [f.loc.user EXCEPT !.id = NewUUID(W.users)]
        tokenPair == GenerateTokenPair(c, time, user)
    IN  Goto(f, [W EXCEPT !.users = CreateUser(W.users, user)],
             "Register:CreateToken",
             [user |-> user, tokenPair |-> tokenPair,
              token |-> NewToken(user, tokenPair, time)])

RegisterCreateToken(f, W, time, c) == StoreToken(f, W)

(* Logout *)

LogoutGetToken(f, W, time, c) ==
    LET r == GetTokenByRefreshToken(W.tokens, f.arg.refresh_token) IN
    IF r.err # Nil THEN
        IF Is(r.err, ErrNotFound)
        THEN Return(f, W, ErrInvalidToken, NoOut)
        ELSE Return(f, W, Wrap(r.err, "failed to get token"), NoOut)
    ELSE IF r.token.access_token # f.arg.access_token
        THEN Return(f, W, ErrInvalidToken, NoOut)
    ELSE Goto(f, W, "Logout:RevokeToken", [token |-> r.token])

\* a faulty LogoutRevokeToken, which goes on to revoke every session of the
\* session's owner with a further store call
LogoutRevokeEverySession(f, W, time, c) ==
    LET r == RevokeToken(W.tokens, f.loc.token.id) IN
    IF r.err # Nil
    THEN Return(f, W, Wrap(r.err, "failed to revoke token"), NoOut)
    ELSE [f |-> [op |-> f.op, pc |-> "RevokeAll:RevokeUserTokens",
                 arg |-> [user_id |-> f.loc.token.user_id], loc |-> NoRow],
          W |-> [W EXCEPT !.tokens = r.tokens]]

LogoutRevokeToken(f, W, time, c) ==
    LET r == RevokeToken(W.tokens, f.loc.token.id) IN
    IF r.err # Nil
    THEN Return(f, W, Wrap(r.err, "failed to revoke token"), NoOut)
    ELSE Return(f, [W EXCEPT !.tokens = r.tokens], Nil, NoOut)

(* RefreshToken *)

RefreshGetToken(f, W, time, c) ==
    LET r == GetTokenByRefreshToken(W.tokens, f.arg.refresh_token) IN
    IF r.err # Nil THEN
        IF Is(r.err, ErrNotFound)
        THEN Return(f, W, ErrInvalidToken, NoOut)
        ELSE Return(f, W, Wrap(r.err, "failed to get token"), NoOut)
    ELSE IF ~IsValid(r.token, time)
        THEN Return(f, W, ErrTokenExpired, NoOut)
    ELSE Goto(f, W, "Refresh:GetUserByID", [storedToken |-> r.token])

RefreshGetUserByID(f, W, time, c) ==
    LET r == GetUserByID(W.users, f.loc.storedToken.user_id) IN
    IF r.err # Nil
    THEN Return(f, W, Wrap(r.err, "failed to get user"), NoOut)
    ELSE Goto(f, W, "Refresh:RevokeToken",
              [storedToken |-> f.loc.storedToken, user |-> r.user,
               tokenPair |-> GenerateTokenPair(c, time, r.user)])

\* a faulty RefreshRevokeToken, which goes on to create the new session
\* without revoking the old one
RefreshKeepOldToken(f, W, time, c) ==
    Goto(f, W, "Refresh:CreateToken",
         [storedToken |-> f.loc.storedToken,
          user |-> f.loc.user, tokenPair |-> f.loc.tokenPair,
          token |-> NewToken(f.loc.user, f.loc.tokenPair, time)])

RefreshRevokeToken(f, W, time, c) ==
    LET r == RevokeToken(W.tokens, f.loc.storedToken.id) IN
    IF r.err # Nil
    THEN Return(f, W, Wrap(r.err, "failed to revoke old token"), NoOut)
    ELSE Goto(f, [W EXCEPT !.tokens = r.tokens], "Refresh:CreateToken",
              [storedToken |-> f.loc.storedToken,
               user |-> f.loc.user, tokenPair |-> f.loc.tokenPair,
               token |-> NewToken(f.loc.user, f.loc.tokenPair, time)])

RefreshCreateToken(f, W, time, c) == StoreToken(f, W)

(* RevokeAllTokens *)

RevokeAllTokens(f, W, time, c) ==
    Return(f, [W EXCEPT !.tokens = RevokeUserTokens(W.tokens, f.arg.user_id)], Nil, NoOut)

(* ValidateToken *)

ValidateToken(f, W, time, c) ==
    LET v == JWTValidateToken(f.arg.token, time) IN
    IF v.err # Nil THEN Return(f, W, v.err, NoOut)
    ELSE LET r == GetTokenByAccessToken(W.tokens, f.arg.token) IN
         IF r.err # Nil /\ ~Is(r.err, ErrNotFound)
         THEN Return(f, W, Wrap(r.err, "failed to get stored token"), NoOut)
         ELSE IF r.token # NoRow /\ ~IsValid(r.token, time)
         THEN Return(f, W, ErrTokenRevoked, NoOut)
         ELSE Return(f, W, Nil, v.claims)

(* GetCurrentUser *)

GetCurrentUser(f, W, time, c) ==
    LET r == GetUserByID(W.users, f.arg.user_id) IN
    IF r.err # Nil
    THEN Return(f, W, Wrap(r.err, "failed to get user"), NoOut)
    ELSE Return(f, W, Nil, ToUserInfo(r.user))

\* the step of frame f at its pc
Step(f, W, time, c) ==
    CASE f.pc = "Login:GetUserByEmail" -> LoginGetUserByEmail(f, W, time, c)
      [] f.pc = "Login:CreateToken" -> LoginCreateToken(f, W, time, c)
      [] f.pc = "Register:IsEmailExists" -> RegisterIsEmailExists(f, W, time, c)
      [] f.pc = "Register:IsUsernameExists" -> RegisterIsUsernameExists(f, W, time, c)
      [] f.pc = "Register:CreateUser" -> RegisterCreateUser(f, W, time, c)
      [] f.pc = "Register:CreateToken" -> RegisterCreateToken(f, W, time, c)
      [] f.pc = "Logout:GetTokenByRefreshToken" -> LogoutGetToken(f, W, time, c)
      [] f.pc = "Logout:RevokeToken" -> LogoutRevokeToken(f, W, time, c)
      [] f.pc = "Refresh:GetTokenByRefreshToken" -> RefreshGetToken(f, W, time, c)
      [] f.pc = "Refresh:GetUserByID" -> RefreshGetUserByID(f, W, time, c)
      [] f.pc = "Refresh:RevokeToken" -> RefreshRevokeToken(f, W, time, c)
      [] f.pc = "Refresh:CreateToken" -> RefreshCreateToken(f, W, time, c)
      [] f.pc = "RevokeAll:RevokeUserTokens" -> RevokeAllTokens(f, W, time, c)
      [] f.pc = "Validate:GetTokenByAccessToken" -> ValidateToken(f, W, time, c)
      [] f.pc = "GetCurrentUser:GetUserByID" -> GetCurrentUser(f, W, time, c)

\* a call run from its first step to its return with no other call in between
RECURSIVE Run(_, _, _, _)
Run(f, W, time, c) ==
    IF f.pc = "done" THEN [f |-> f, W |-> W]
    ELSE LET r == Step(f, W, time, c) IN Run(r.f, r.W, time, c)

(* ------------------------------ inputs --------------------------------- *)

Emails == {"a@x.com", "b@x.com"}

Usernames == {"alice", "bob"}

Passwords == {"password123", "wrongpass99", "short"}

RegisterPasswords == {"password123", "short"}

\* the statuses the user module's status endpoint is called with
StatusInputs == {UserStatusActive, UserStatusSuspended}

\* the identity the database holds when the service starts
FirstUser ==
    [id |-> 1, organization_id |-> "org1", role_id |-> "role1",
     username |-> "alice", email |-> "a@x.com",
     password_hash |-> BcryptOf("password123"), status |-> UserStatusActive]

RegisterRequests ==
    [organization_id : {"org2"}, role_id : {"role2"},
     username : Usernames, email : Emails, password : RegisterPasswords]

LoginRequests == [email : Emails, password : Passwords]

\* every token string that was ever stored, and one that never was
IssuedAccessTokens == {tokens[i].access_token : i \in 1..Len(tokens)}

IssuedRefreshTokens == {tokens[i].refresh_token : i \in 1..Len(tokens)}

UserIDs == 1..Len(users)

DB == [users |-> users, tokens |-> tokens]

(* --------------------- the service, one call at a time ------------------ *)

Init ==
    /\ users = <<FirstUser>>
    /\ tokens = <<>>
    /\ now = 0
    /\ cfg \in JWTConfigs
    /\ procs = [p \in 1..MaxProcs |-> Idle]
    /\ last = Idle

\* Requests are served one at a time.  A request is its whole usecase call
\* (Serve: every step of the handler up to its return) and then the HTTP
\* handler writing the response (Respond).
Serve(f) ==
    LET r == Run(f, DB, now, cfg) IN
    /\ last = Idle
    /\ Len(r.W.users) <= MaxUsers
    /\ Len(r.W.tokens) <= MaxTokens
    /\ users' = r.W.users
    /\ tokens' = r.W.tokens
    /\ last' = r.f
    /\ UNCHANGED <<now, cfg, procs>>

Login ==
    \E req \in LoginRequests :
        /\ last = Idle
        /\ Serve(Call("Login", "Login:GetUserByEmail", req))

Register ==
    \E req \in RegisterRequests :
        /\ last = Idle
        /\ Serve(Call("Register", "Register:IsEmailExists", req))

Logout ==
    \E a \in IssuedAccessTokens \cup {GarbageToken}, r \in IssuedRefreshTokens \cup {GarbageToken} :
        Serve(Call("Logout", "Logout:GetTokenByRefreshToken",
                   [access_token |-> a, refresh_token |-> r]))

Refresh ==
    \E r \in IssuedRefreshTokens \cup {GarbageToken} :
        Serve(Call("RefreshToken", "Refresh:GetTokenByRefreshToken", [refresh_token |-> r]))

RevokeAll ==
    \E id \in UserIDs :
        Serve(Call("RevokeAllTokens", "RevokeAll:RevokeUserTokens", [user_id |-> id]))

Validate ==
    \E t \in IssuedAccessTokens \cup IssuedRefreshTokens \cup {GarbageToken, EmptyToken} :
        Serve(Call("ValidateToken", "Validate:GetTokenByAccessToken", [token |-> t]))

CurrentUser ==
    \E id \in UserIDs \cup {MaxUsers + 1} :
        Serve(Call("GetCurrentUser", "GetCurrentUser:GetUserByID", [user_id |-> id]))

\* the HTTP handler writes the response of the call that returned
Respond ==
    /\ last # Idle
    /\ last' = Idle
    /\ UNCHANGED <<users, tokens, now, cfg, procs>>

\* the periodic cleanup of the tokens table
Cleanup ==
    /\ last = Idle
    /\ tokens' = CleanupExpiredTokens(tokens, now)
    /\ UNCHANGED <<users, now, cfg, procs, last>>

\* PATCH /users/{id}/status of the user module
UpdateUserStatus ==
    \E id \in UserIDs, status \in StatusInputs :
        /\ last = Idle
        /\ users' = UpdateStatus(users, id, status)
        /\ UNCHANGED <<tokens, now, cfg, procs, last>>

\* a second passes
Tick ==
    /\ last = Idle
    /\ now < MaxTime
    /\ now' = now + 1
    /\ UNCHANGED <<users, tokens, cfg, procs, last>>

Next ==
    \/ Login
    \/ Register
    \/ Logout
    \/ Refresh
    \/ RevokeAll
    \/ Validate
    \/ CurrentUser
    \/ Respond
    \/ Cleanup
    \/ UpdateUserStatus
    \/ Tick

Spec == Init /\ [][Next]_vars

(* ------------------- the service under concurrent requests -------------- *)

\* Each of the MaxProcs request goroutines serves one call; the steps of the
\* calls (their store calls) interleave, together with the clock and the
\* cleanup.  The run starts after one login of the first user.

FirstSession(c) ==
    [NewToken(FirstUser, GenerateTokenPair(c, 0, FirstUser), 0) EXCEPT !.id = 1]

InitConc ==
    /\ users = <<FirstUser>>
    /\ cfg \in JWTConfigs
    /\ tokens = <<FirstSession(cfg)>>
    /\ now = 0
    /\ procs = [p \in 1..MaxProcs |-> Idle]
    /\ last = Idle

\* goroutine p makes the store call of frame f and runs on to the next one
Advance(p, f) ==
    LET r == Step(f, DB, now, cfg) IN
    /\ procs' = [procs EXCEPT ![p] = r.f]
    /\ users' = r.W.users
    /\ tokens' = r.W.tokens
    /\ UNCHANGED <<now, cfg, last>>

\* ConcLogin, ConcLogout, ConcRefresh, ConcRevokeAll and ConcValidate: an
\* idle goroutine takes a request and makes its first store call.  The other
\* actions: a goroutine stopped before a store call makes it.

ConcLogin(p) ==
    /\ procs[p] = Idle
    /\ Advance(p, Call("Login", "Login:GetUserByEmail",
                       [email |-> "a@x.com", password |-> "password123"]))

ConcLoginCreateToken(p) ==
    /\ procs[p].pc = "Login:CreateToken"
    /\ Advance(p, procs[p])

ConcLogout(p) ==
    \E i \in 1..Len(tokens) :
        /\ procs[p] = Idle
        /\ Advance(p, Call("Logout", "Logout:GetTokenByRefreshToken",
                           [access_token |-> tokens[i].access_token,
                            refresh_token |-> tokens[i].refresh_token]))

ConcLogoutRevokeToken(p) ==
    /\ procs[p].pc = "Logout:RevokeToken"
    /\ Advance(p, procs[p])

ConcRefresh(p) ==
    \E r \in IssuedRefreshTokens :
        /\ procs[p] = Idle
        /\ Advance(p, Call("RefreshToken", "Refresh:GetTokenByRefreshToken",
                           [refresh_token |-> r]))

ConcRefreshGetUserByID(p) ==
    /\ procs[p].pc = "Refresh:GetUserByID"
    /\ Advance(p, procs[p])

ConcRefreshRevokeToken(p) ==
    /\ procs[p].pc = "Refresh:RevokeToken"
    /\ Advance(p, procs[p])

ConcRefreshCreateToken(p) ==
    /\ procs[p].pc = "Refresh:CreateToken"
    /\ Advance(p, procs[p])

ConcRevokeAll(p) ==
    /\ procs[p] = Idle
    /\ Advance(p, Call("RevokeAllTokens", "RevokeAll:RevokeUserTokens",
                       [user_id |-> FirstUser.id]))

ConcValidate(p) ==
    \E t \in IssuedAccessTokens :
        /\ procs[p] = Idle
        /\ Advance(p, Call("ValidateToken", "Validate:GetTokenByAccessToken",
                           [token |-> t]))

NextConc ==
    \/ \E p \in 1..MaxProcs :
          \/ ConcLogin(p)
          \/ ConcLoginCreateToken(p)
          \/ ConcLogout(p)
          \/ ConcLogoutRevokeToken(p)
          \/ ConcRefresh(p)
          \/ ConcRefreshGetUserByID(p)
          \/ ConcRefreshRevokeToken(p)
          \/ ConcRefreshCreateToken(p)
          \/ ConcRevokeAll(p)
          \/ ConcValidate(p)
    \/ Cleanup
    \/ Tick

SpecConc == InitConc /\ [][NextConc]_vars

(* ------------------------------- claims -------------------------------- *)

\* the frame a call returns with when it is run from database W at `time`
LoginIn(W, time, req) ==
    Run(Call("Login", "Login:GetUserByEmail", req), W, time, cfg)

RegisterIn(W, time, req) ==
    Run(Call("Register", "Register:IsEmailExists", req), W, time, cfg)

LogoutIn(W, time, a, r) ==
    Run(Call("Logout", "Logout:GetTokenByRefreshToken",
             [access_token |-> a, refresh_token |-> r]), W, time, cfg)

RefreshIn(W, time, r) ==
    Run(Call("RefreshToken", "Refresh:GetTokenByRefreshToken", [refresh_token |-> r]),
        W, time, cfg)

ValidateIn(W, time, t) ==
    Run(Call("ValidateToken", "Validate:GetTokenByAccessToken", [token |-> t]),
        W, time, cfg)

Returned(op) == last # Idle /\ last.op = op

Succeeded(op) == Returned(op) /\ last.err = Nil

\* C1: the access token of a session that is revoked, or past its expiry, or
\* was revoked or expired when the cleanup deleted it, does not pass
\* ValidateToken.  (A row never leaves these conditions, so this is "never
\* again, in any later state".)
C1_DeadSessionNeverValidates ==
    \A i \in 1..Len(tokens) :
        (tokens[i].revoked \/ IsExpired(tokens[i], now) \/ tokens[i].deleted)
            => ValidateIn(DB, now, tokens[i].access_token).f.err # Nil

\* C2: right after Refresh(rt) returned successfully, Refresh(rt) fails.
C2_RefreshTokenSingleUse ==
    Succeeded("RefreshToken")
        => RefreshIn(DB, now, last.arg.refresh_token).f.err # Nil

\* C3: of two concurrent Refresh calls with the same refresh token at most
\* one succeeds.  The calls considered are those that returned a token pair
\* other than the one presented, so that neither call can have been served
\* from the session the other one created.
C3_OneConcurrentRefreshWins ==
    \A p, q \in 1..MaxProcs :
        (/\ p # q
         /\ procs[p].pc = "done" /\ procs[p].op = "RefreshToken"
         /\ procs[q].pc = "done" /\ procs[q].op = "RefreshToken"
         /\ procs[p].arg = procs[q].arg
         /\ procs[p].err = Nil
         /\ procs[p].out.refresh_token # procs[p].arg.refresh_token)
            => \/ procs[q].err # Nil
               \/ procs[q].out.refresh_token = procs[q].arg.refresh_token

\* C4: Login with an email no identity has, and Login with an existing email
\* and a wrong password, both return exactly ErrInvalidCredentials and
\* create no session.
C4_LoginFailuresIndistinguishable ==
    \A req \in LoginRequests :
        LET found == GetUserByEmail(users, req.email)
            r == LoginIn(DB, now, req)
        IN  (~IsEmailExists(users, req.email)
                \/ ~Verify(req.password, found.user.password_hash))
            => r.f.err = ErrInvalidCredentials /\ r.W = DB

\* the session row a Logout with refresh token r acts on
LogoutTarget(r) == GetTokenByRefreshToken(tokens, r).token.id

\* C5: a successful Logout(a, r) sets the revoked flag of one session
\* holding r and changes no other session, and every other active session
\* whose access token validated before the call validates after it.
C5_LogoutRevokesOnlyItsSession ==
    \A a \in IssuedAccessTokens, r \in IssuedRefreshTokens :
        LET res == LogoutIn(DB, now, a, r)
            i == LogoutTarget(r)
        IN  res.f.err = Nil =>
              /\ res.W.users = users
              /\ Len(res.W.tokens) = Len(tokens)
              /\ tokens[i].refresh_token = r
              /\ res.W.tokens[i] = [tokens[i] EXCEPT !.revoked = TRUE]
              /\ \A j \in 1..Len(tokens) :
                    j # i =>
                      /\ res.W.tokens[j] = tokens[j]
                      /\ (/\ ~tokens[j].deleted
                          /\ IsValid(tokens[j], now)
                          /\ ValidateIn(DB, now, tokens[j].access_token).f.err = Nil)
                            => ValidateIn(res.W, now, tokens[j].access_token).f.err = Nil

\* the database after the cleanup has run
Cleaned == [DB EXCEPT !.tokens = CleanupExpiredTokens(tokens, now)]

\* C6: ValidateToken, Refresh and Logout return the same outcome whether or
\* not the cleanup ran before them.
C6_CleanupHasNoEffect ==
    /\ \A t \in IssuedAccessTokens \cup IssuedRefreshTokens :
          ValidateIn(Cleaned, now, t).f.err = ValidateIn(DB, now, t).f.err
    /\ \A r \in IssuedRefreshTokens :
          RefreshIn(Cleaned, now, r).f.err = RefreshIn(DB, now, r).f.err
    /\ \A a \in IssuedAccessTokens, r \in IssuedRefreshTokens :
          LogoutIn(Cleaned, now, a, r).f.err = LogoutIn(DB, now, a, r).f.err

\* C7: for a token that passes the issuer's check, ValidateToken fails with
\* ErrTokenRevoked when the row holding it is revoked or expired, and returns
\* the token's claims when no row holds it.
C7_ValidateAgainstStore ==
    \A t \in IssuedAccessTokens \cup IssuedRefreshTokens :
        LET v == JWTValidateToken(t, now)
            row == GetTokenByAccessToken(tokens, t).token
            res == ValidateIn(DB, now, t).f
        IN  v.err = Nil =>
              /\ (row # NoRow /\ ~IsValid(row, now)) => res.err = ErrTokenRevoked
              /\ row = NoRow => (res.err = Nil /\ res.out = v.claims)

\* C8: Login with the email and password of an active identity succeeds,
\* appends one non-revoked session holding the returned tokens and changes
\* nothing else, and ValidateToken on the returned access token returns that
\* identity's id, organization, role and email.
C8_LoginSucceeds ==
    \A req \in LoginRequests :
        LET found == GetUserByEmail(users, req.email)
            res == LoginIn(DB, now, req)
            n == Len(tokens) + 1
            v == ValidateIn(res.W, now, res.f.out.access_token).f
        IN  (/\ found.err = Nil
             /\ IsActive(found.user)
             /\ Verify(req.password, found.user.password_hash))
            => /\ res.f.err = Nil
               /\ res.W.users = users
               /\ Len(res.W.tokens) = n
               /\ SubSeq(res.W.tokens, 1, n - 1) = tokens
               /\ ~res.W.tokens[n].revoked
               /\ res.W.tokens[n].user_id = found.user.id
               /\ res.W.tokens[n].access_token = res.f.out.access_token
               /\ res.W.tokens[n].refresh_token = res.f.out.refresh_token
               /\ v.err = Nil
               /\ v.out.user_id = found.user.id
               /\ v.out.organization_id = found.user.organization_id
               /\ v.out.role_id = found.user.role_id
               /\ v.out.email = found.user.email

\* a Login has just returned successfully, its session is the newest row and
\* its access token validates
C8_Witness ==
    /\ Succeeded("Login")
    /\ tokens # <<>>
    /\ tokens[Len(tokens)].access_token = last.out.access_token
    /\ ~tokens[Len(tokens)].revoked
    /\ ValidateIn(DB, now, last.out.access_token).f.out.email = last.arg.email

\* C9: Register returns ErrEmailTaken when the email is in use, and
\* ErrUsernameTaken when the email is free and the username is in use; in
\* both cases it writes nothing and returns no token pair.
C9_RegisterConflicts ==
    \A req \in RegisterRequests :
        LET res == RegisterIn(DB, now, req) IN
        /\ IsEmailExists(users, req.email)
              => res.f.err = ErrEmailTaken /\ res.W = DB /\ res.f.out = NoOut
        /\ (~IsEmailExists(users, req.email) /\ IsUsernameExists(users, req.username))
              => res.f.err = ErrUsernameTaken /\ res.W = DB /\ res.f.out = NoOut

\* a Register with a free email and a used username has just been refused,
\* and one with a used email would be
C9_Witness ==
    /\ Returned("Register")
    /\ last.err = ErrUsernameTaken
    /\ ~IsEmailExists(users, last.arg.email)
    /\ \E req \in RegisterRequests :
          /\ IsEmailExists(users, req.email)
          /\ ~IsUsernameExists(users, req.username)
          /\ RegisterIn(DB, now, req).f.err = ErrEmailTaken

\* C10: Login for an identity that is not active returns ErrUserDisabled
\* when the password verifies and ErrInvalidCredentials when it does not,
\* and creates no session.
C10_DisabledLogin ==
    \A req \in LoginRequests :
        LET found == GetUserByEmail(users, req.email)
            res == LoginIn(DB, now, req)
        IN  (found.err = Nil /\ ~IsActive(found.user))
            => /\ res.W = DB
               /\ res.f.out = NoOut
               /\ res.f.err = IF Verify(req.password, found.user.password_hash)
                               THEN ErrUserDisabled
                               ELSE ErrInvalidCredentials

\* a Login with the right password of a suspended identity has just been
\* refused, and one with a wrong password would be refused differently
C10_Witness ==
    /\ Returned("Login")
    /\ last.err = ErrUserDisabled
    /\ LoginIn(DB, now, [last.arg EXCEPT !.password = "wrongpass99"]).f.err
          = ErrInvalidCredentials

\* the refresh tokens a client may present: issued ones and one never issued
PresentedRefreshTokens == IssuedRefreshTokens \cup {GarbageToken}

\* C11: Refresh fails with ErrInvalidToken when no session holds the refresh
\* token and with ErrTokenExpired when the session found is revoked or past
\* its expiry; in both cases the tables are unchanged.
C11_RefreshFailures ==
    \A r \in PresentedRefreshTokens :
        LET row == GetTokenByRefreshToken(tokens, r).token
            res == RefreshIn(DB, now, r)
        IN  /\ row = NoRow => (res.f.err = ErrInvalidToken /\ res.W = DB)
            /\ (row # NoRow /\ ~IsValid(row, now))
                 => (res.f.err = ErrTokenExpired /\ res.W = DB)

\* C12: Logout fails with ErrInvalidToken when no session holds the refresh
\* token, and when the session found stores another access token; in both
\* cases the tables are unchanged.
C12_LogoutFailures ==
    \A a \in IssuedAccessTokens \cup {GarbageToken}, r \in PresentedRefreshTokens :
        LET row == GetTokenByRefreshToken(tokens, r).token
            res == LogoutIn(DB, now, a, r)
        IN  /\ row = NoRow => (res.f.err = ErrInvalidToken /\ res.W = DB)
            /\ (row # NoRow /\ row.access_token # a)
                 => (res.f.err = ErrInvalidToken /\ res.W = DB)

RevokeAllIn(W, time, id) ==
    Run(Call("RevokeAllTokens", "RevokeAll:RevokeUserTokens", [user_id |-> id]),
        W, time, cfg)

\* C13: RevokeAllTokens(id) succeeds and sets the revoked flag of every
\* session of user id, after which Refresh and ValidateToken on the tokens of
\* those sessions fail; it changes no session of another user and no user.
C13_RevokeAllRevokesAllOfOneUser ==
    \A id \in UserIDs :
        LET res == RevokeAllIn(DB, now, id) IN
        /\ res.f.err = Nil
        /\ res.W.users = users
        /\ Len(res.W.tokens) = Len(tokens)
        /\ \A i \in 1..Len(tokens) :
             IF tokens[i].user_id = id /\ ~tokens[i].deleted
             THEN /\ res.W.tokens[i] = [tokens[i] EXCEPT !.revoked = TRUE]
                  /\ RefreshIn(res.W, now, tokens[i].refresh_token).f.err # Nil
                  /\ ValidateIn(res.W, now, tokens[i].access_token).f.err # Nil
             ELSE res.W.tokens[i] = tokens[i]

\* a RevokeAllTokens has just returned: a session of its user, valid but for
\* its revoked flag, is revoked, and a session of another user is still valid
C13_Witness ==
    /\ Succeeded("RevokeAllTokens")
    /\ \E i, k \in 1..Len(tokens) :
         /\ tokens[i].user_id = last.arg.user_id
         /\ tokens[i].revoked /\ ~IsExpired(tokens[i], now) /\ ~tokens[i].deleted
         /\ tokens[k].user_id # last.arg.user_id
         /\ IsValid(tokens[k], now) /\ ~tokens[k].deleted

(* ----------------------- the token issuer on its own -------------------- *)

\* JWTManager.ValidateToken is also called with tokens the service never
\* issued (the Auth middleware hands it whatever the Authorization header
\* carries).  A presented token declares an algorithm and was signed with
\* some key.

Algorithms == {"HS256", "HS384", "HS512", "RS256", "none"}

\* the server's secret and a key of somebody else
SigningKeys == {Secret, "attacker-key"}

PresentedTokens ==
    { SignedString(alg, key, FirstUser.id, FirstUser.organization_id,
                   FirstUser.role_id, FirstUser.email, 0, exp) :
        alg \in Algorithms, key \in SigningKeys, exp \in 1..MaxTime }
    \cup {EmptyToken, GarbageToken}

InitIssuer ==
    /\ users = <<FirstUser>>
    /\ tokens = <<>>
    /\ now = 0
    /\ cfg \in JWTConfigs
    /\ procs = [p \in 1..MaxProcs |-> Idle]
    /\ last = Idle

\* jwtManager.ValidateToken(t) for a presented token
IssuerValidate ==
    \E t \in PresentedTokens :
        LET v == JWTValidateToken(t, now) IN
        /\ last = Idle
        /\ last' = [op |-> "JWTManager.ValidateToken", pc |-> "done",
                    arg |-> [token |-> t], err |-> v.err, out |-> v.claims]
        /\ UNCHANGED <<users, tokens, now, cfg, procs>>

\* jwtManager.GenerateTokenPair for the first user
IssuerGenerate ==
    /\ last = Idle
    /\ last' = [op |-> "JWTManager.GenerateTokenPair", pc |-> "done",
                arg |-> [user_id |-> FirstUser.id], err |-> Nil,
                out |-> GenerateTokenPair(cfg, now, FirstUser)]
    /\ UNCHANGED <<users, tokens, now, cfg, procs>>

NextIssuer ==
    \/ IssuerValidate
    \/ IssuerGenerate
    \/ Respond
    \/ Tick

SpecIssuer == InitIssuer /\ [][NextIssuer]_vars

\* C14: a token that declares an algorithm other than HS256, or that was
\* signed with a key other than the server's, is rejected with
\* ErrInvalidToken.
C14_OnlyHS256Accepted ==
    Returned("JWTManager.ValidateToken") =>
        LET t == last.arg.token IN
        (~IsMalformed(t) /\ (t.alg # HS256 \/ t.key # Secret))
            => last.err = ErrInvalidToken

\* the signature of a token verifies: it was made with the server's key by
\* the HMAC algorithm the header declares
SignatureVerifies(t) == ~IsMalformed(t) /\ t.alg \in HMACMethods /\ t.key = Secret

DriverErrBadConn == <<"driver: bad connection">>

\* the error the repository method called at pc returns when its query fails
\* with err
RepoFailure(pc, err) ==
    CASE pc \in {"Login:GetUserByEmail", "Refresh:GetUserByID",
                 "GetCurrentUser:GetUserByID"} -> userHandleError(err)
      [] pc \in {"Logout:GetTokenByRefreshToken", "Refresh:GetTokenByRefreshToken",
                 "Validate:GetTokenByAccessToken"} -> tokenHandleError(err)
      [] pc = "Register:IsEmailExists" -> Wrap(err, "failed to check email existence")
      [] pc = "Register:IsUsernameExists" -> Wrap(err, "failed to check username existence")
      [] pc = "Register:CreateUser" -> Wrap(err, "failed to create user")
      [] pc \in {"Login:CreateToken", "Register:CreateToken", "Refresh:CreateToken"}
            -> Wrap(err, "failed to create token")
      [] pc \in {"Logout:RevokeToken", "Refresh:RevokeToken"}
            -> Wrap(err, "failed to revoke token")
      [] pc = "RevokeAll:RevokeUserTokens" -> Wrap(err, "failed to revoke user tokens")

\* the context the usecase method wraps the error of the store call at pc in
FailureContext(pc) ==
    CASE pc \in {"Login:GetUserByEmail", "Refresh:GetUserByID",
                 "GetCurrentUser:GetUserByID"} -> "failed to get user"
      [] pc \in {"Logout:GetTokenByRefreshToken", "Refresh:GetTokenByRefreshToken"}
            -> "failed to get token"
      [] pc = "Validate:GetTokenByAccessToken" -> "failed to get stored token"
      [] pc = "Register:IsEmailExists" -> "failed to check email existence"
      [] pc = "Register:IsUsernameExists" -> "failed to check username existence"
      [] pc = "Register:CreateUser" -> "failed to create user"
      [] pc \in {"Login:CreateToken", "Register:CreateToken"} -> "failed to store token"
      [] pc = "Refresh:CreateToken" -> "failed to store new token"
      [] pc = "Logout:RevokeToken" -> "failed to revoke token"
      [] pc = "Refresh:RevokeToken" -> "failed to revoke old token"
      [] pc = "RevokeAll:RevokeUserTokens" -> "failed to revoke user tokens"

\* the step of frame f when its store call fails: the query changes nothing
\* and the method returns the wrapped error.  (ValidateToken reaches its
\* store call only with a token the issuer accepts.)
FailStep(f, W, time, c) ==
    IF f.pc = "Validate:GetTokenByAccessToken"
       /\ JWTValidateToken(f.arg.token, time).err # Nil
    THEN Step(f, W, time, c)
    ELSE Return(f, W, Wrap(RepoFailure(f.pc, DriverErrBadConn), FailureContext(f.pc)), NoOut)

\* a call run to its return, its k-th store call failing
RECURSIVE RunFault(_, _, _, _, _)
RunFault(f, W, time, c, k) ==
    IF f.pc = "done" THEN [f |-> f, W |-> W]
    ELSE IF k = 1 THEN FailStep(f, W, time, c)
    ELSE LET r == Step(f, W, time, c) IN RunFault(r.f, r.W, time, c, k - 1)

\* the most store calls a usecase method makes (Register, RefreshToken)
MaxStoreCalls == 4

\* a request served while the connection fails at its k-th store call
ServeFault(f) ==
    \E k \in 1..MaxStoreCalls :
        LET r == RunFault(f, DB, now, cfg, k) IN
        /\ last = Idle
        /\ Is(r.f.err, DriverErrBadConn)
        /\ Len(r.W.users) <= MaxUsers
        /\ Len(r.W.tokens) <= MaxTokens
        /\ users' = r.W.users
        /\ tokens' = r.W.tokens
        /\ last' = r.f
        /\ UNCHANGED <<now, cfg, procs>>

FaultyLogin ==
    \E req \in LoginRequests :
        /\ last = Idle
        /\ ServeFault(Call("Login", "Login:GetUserByEmail", req))

FaultyRegister ==
    \E req \in RegisterRequests :
        /\ last = Idle
        /\ ServeFault(Call("Register", "Register:IsEmailExists", req))

FaultyLogout ==
    \E i \in 1..Len(tokens) :
        /\ last = Idle
        /\ ServeFault(Call("Logout", "Logout:GetTokenByRefreshToken",
                           [access_token |-> tokens[i].access_token,
                            refresh_token |-> tokens[i].refresh_token]))

FaultyRefresh ==
    \E r \in IssuedRefreshTokens :
        /\ last = Idle
        /\ ServeFault(Call("RefreshToken", "Refresh:GetTokenByRefreshToken",
                           [refresh_token |-> r]))

FaultyRevokeAll ==
    \E id \in UserIDs :
        /\ last = Idle
        /\ ServeFault(Call("RevokeAllTokens", "RevokeAll:RevokeUserTokens",
                           [user_id |-> id]))

FaultyValidate ==
    \E t \in IssuedAccessTokens :
        /\ last = Idle
        /\ ServeFault(Call("ValidateToken", "Validate:GetTokenByAccessToken",
                           [token |-> t]))

FaultyCurrentUser ==
    \E id \in UserIDs :
        /\ last = Idle
        /\ ServeFault(Call("GetCurrentUser", "GetCurrentUser:GetUserByID",
                           [user_id |-> id]))

NextFault ==
    \/ Login
    \/ Register
    \/ Logout
    \/ Refresh
    \/ RevokeAll
    \/ FaultyLogin
    \/ FaultyRegister
    \/ FaultyLogout
    \/ FaultyRefresh
    \/ FaultyRevokeAll
    \/ FaultyValidate
    \/ FaultyCurrentUser
    \/ Respond
    \/ Tick

SpecFault == Init /\ [][NextFault]_vars

\* C16: a call that returns the error of a failed store call leaves the
\* users and tokens tables as they were before the call.
C16_NoPartialCommit ==
    [][(last = Idle /\ last' # Idle /\ Is(last'.err, DriverErrBadConn))
          => (users' = users /\ tokens' = tokens)]_vars

ErrInternal == <<"internal server error">>

\* the error kinds of the auth error taxonomy
TaxonomyKinds ==
    {ErrInvalidCredentials, ErrUserDisabled, ErrEmailTaken, ErrUsernameTaken,
     ErrInvalidToken, ErrTokenExpired, ErrTokenRevoked, ErrNotFound,
     ErrPasswordTooShort, ErrInternal}

\* C17: the error a call returns is (errors.Is) one of the taxonomy kinds,
\* and no error of database/sql or of the driver is in its chain.
C17_ErrorsAreTaxonomyKinds ==
    (last # Idle /\ last.err # Nil) =>
        /\ \E kind \in TaxonomyKinds : Is(last.err, kind)
        /\ ~Is(last.err, DriverErrBadConn)
        /\ ~Is(last.err, SqlErrNoRows)

(* ----------------------------- HTTP boundary ---------------------------- *)

StatusOK == 200
StatusCreated == 201
StatusUnauthorized == 401
StatusForbidden == 403
StatusNotFound == 404
StatusConflict == 409
StatusUnprocessableEntity == 422
StatusInternalServerError == 500

\* validate:"required,min=8" of the password of LoginRequest and RegisterRequest
ValidateMinPassword == 8

\* h.validator.Struct(&req) for the request fields the model varies
ValidatorStruct(req) == Len(req.password) >= ValidateMinPassword

\* Handler.handleError: the first matching case of its switch
HandlerHandleError(err) ==
    IF Is(err, ErrInvalidCredentials) THEN StatusUnauthorized
    ELSE IF Is(err, ErrUserDisabled) THEN StatusForbidden
    ELSE IF Is(err, ErrEmailTaken) THEN StatusConflict
    ELSE IF Is(err, ErrUsernameTaken) THEN StatusConflict
    ELSE IF Is(err, ErrInvalidToken) THEN StatusUnauthorized
    ELSE IF Is(err, ErrTokenExpired) THEN StatusUnauthorized
    ELSE IF Is(err, ErrTokenRevoked) THEN StatusUnauthorized
    ELSE IF Is(err, ErrNotFound) THEN StatusNotFound
    ELSE StatusInternalServerError

\* the status a handler writes for a usecase result
Responds(err, success) == IF err = Nil THEN success ELSE HandlerHandleError(err)

HandlerLogin(W, time, req) ==
    IF ~ValidatorStruct(req) THEN StatusUnprocessableEntity
    ELSE Responds(LoginIn(W, time, req).f.err, StatusOK)

HandlerRegister(W, time, req) ==
    IF ~ValidatorStruct(req) THEN StatusUnprocessableEntity
    ELSE Responds(RegisterIn(W, time, req).f.err, StatusCreated)

HandlerRefreshToken(W, time, r) == Responds(RefreshIn(W, time, r).f.err, StatusOK)

HandlerLogout(W, time, a, r) == Responds(LogoutIn(W, time, a, r).f.err, StatusOK)

\* C18: for well-formed requests, register answers 201, or 409 when the
\* email or the username is taken; login answers 200, or 401 for an unknown
\* email or a wrong password, or 403 for an identity that is not active;
\* refresh answers 200, or 401 for an unknown, revoked or expired refresh
\* token; logout answers 200, or 401 for an unknown refresh token or an
\* access token that is not the session's.
C18_HTTPStatuses ==
    /\ \A req \in RegisterRequests :
         ValidatorStruct(req) =>
           HandlerRegister(DB, now, req) =
             IF IsEmailExists(users, req.email) \/ IsUsernameExists(users, req.username)
             THEN StatusConflict ELSE StatusCreated
    /\ \A req \in LoginRequests :
         ValidatorStruct(req) =>
           HandlerLogin(DB, now, req) =
             LET found == GetUserByEmail(users, req.email) IN
             IF found.user = NoRow \/ ~Verify(req.password, found.user.password_hash)
             THEN StatusUnauthorized
             ELSE IF ~IsActive(found.user) THEN StatusForbidden
             ELSE StatusOK
    /\ \A r \in PresentedRefreshTokens :
         HandlerRefreshToken(DB, now, r) =
           LET row == GetTokenByRefreshToken(tokens, r).token IN
           IF row = NoRow \/ ~IsValid(row, now) THEN StatusUnauthorized ELSE StatusOK
    /\ \A a \in IssuedAccessTokens \cup {GarbageToken}, r \in PresentedRefreshTokens :
         HandlerLogout(DB, now, a, r) =
           LET row == GetTokenByRefreshToken(tokens, r).token IN
           IF row = NoRow \/ row.access_token # a THEN StatusUnauthorized ELSE StatusOK

\* the rows of the token table that are stored, not revoked and not expired
ActiveSessions == {i \in Rows(tokens) : IsValid(tokens[i], now)}

\* C19: no two active sessions share an access-token string or a
\* refresh-token string, also when they were created by calls of the same
\* identity within the same second.
C19_ActiveSessionsDistinct ==
    \A i, j \in ActiveSessions :
        i # j => /\ tokens[i].access_token # tokens[j].access_token
                 /\ tokens[i].refresh_token # tokens[j].refresh_token


(* ------------------------- the session predicates ----------------------- *)

\* the creation times of the session rows the predicates are called on
CreatedAts == 0..MaxTime

\* one session row of the first user, created at any time, revoked or not
InitToken ==
    /\ users = <<FirstUser>>
    /\ cfg \in JWTConfigs
    /\ \E c \in CreatedAts, r \in BOOLEAN :
         tokens = << [NewToken(FirstUser, GenerateTokenPair(cfg, c, FirstUser), c)
                        EXCEPT !.id = 1, !.revoked = r] >>
    /\ now = 0
    /\ procs = [p \in 1..MaxProcs |-> Idle]
    /\ last = Idle

\* t.IsExpired() on a stored row; the method assigns nothing
TokenIsExpired ==
    \E i \in 1..Len(tokens) :
        /\ last = Idle
        /\ last' = [op |-> "Token.IsExpired", pc |-> "done",
                    arg |-> [token |-> tokens[i], row |-> i], err |-> Nil,
                    out |-> IsExpired(tokens[i], now)]
        /\ UNCHANGED <<users, tokens, now, cfg, procs>>

\* t.IsValid() on a stored row; the method assigns nothing
TokenIsValid ==
    \E i \in 1..Len(tokens) :
        /\ last = Idle
        /\ last' = [op |-> "Token.IsValid", pc |-> "done",
                    arg |-> [token |-> tokens[i], row |-> i], err |-> Nil,
                    out |-> IsValid(tokens[i], now)]
        /\ UNCHANGED <<users, tokens, now, cfg, procs>>

NextToken ==
    \/ TokenIsExpired
    \/ TokenIsValid
    \/ Respond
    \/ Tick

SpecToken == InitToken /\ [][NextToken]_vars

\* the receiver of the call that just returned is as it was before the call
ReceiverUnchanged == tokens[last.arg.row] = last.arg.token

\* C20 as stated: IsValid is true exactly when the session is not revoked
\* and the current time is strictly before its expiry, so it is false at the
\* instant now = expiry; IsExpired and IsValid change no state.
C20_InvalidFromExpiry ==
    /\ Returned("Token.IsValid") =>
         /\ last.out <=> (~last.arg.token.revoked /\ now < last.arg.token.expires_at)
         /\ ReceiverUnchanged
    /\ Returned("Token.IsExpired") => ReceiverUnchanged

\* C20 as the code has it: IsValid is true exactly when the session is not
\* revoked and the current time is not after its expiry (now <= expiry), so
\* a session is still valid at the instant now = expiry and invalid from the
\* next instant on; IsExpired is true exactly when now is after the expiry;
\* IsExpired and IsValid change no state.
C20_ValidThroughExpiry ==
    /\ Returned("Token.IsValid") =>
         /\ last.out <=> (~last.arg.token.revoked /\ now <= last.arg.token.expires_at)
         /\ ReceiverUnchanged
    /\ Returned("Token.IsExpired") =>
         /\ last.out <=> (now > last.arg.token.expires_at)
         /\ ReceiverUnchanged

\* IsValid returned true for an unrevoked session at the instant of its expiry
C20_Witness ==
    /\ Returned("Token.IsValid")
    /\ ~last.arg.token.revoked
    /\ now = last.arg.token.expires_at
    /\ last.out

(* ------------------------ the tokens repository alone ------------------- *)

\* the token tables the repository is called on: up to MaxTokens rows of the
\* first user with IDs 1, 2, ..., each revoked or not, each deleted or not
StoredRow(c, id, revoked, gone) ==
    [NewToken(FirstUser, GenerateTokenPair(c, 0, FirstUser), 0)
        EXCEPT !.id = id, !.revoked = revoked, !.deleted = gone]

TokenTables(c) ==
    UNION { { [i \in 1..n |-> StoredRow(c, i, r[i], g[i])] :
                r \in [1..n -> BOOLEAN], g \in [1..n -> BOOLEAN] } : n \in 0..MaxTokens }

\* the IDs RevokeToken is called with: those of the rows and one of no row
TokenIDs == 1..(MaxTokens + 1)

InitStore ==
    /\ users = <<FirstUser>>
    /\ cfg \in JWTConfigs
    /\ tokens \in TokenTables(cfg)
    /\ now = 0
    /\ procs = [p \in 1..MaxProcs |-> Idle]
    /\ last = Idle

\* caller p calls tokenRepo.RevokeToken(ctx, id)
StoreRevokeTokenCall(p) ==
    \E id \in TokenIDs :
        /\ procs[p] = Idle
        /\ procs' = [procs EXCEPT ![p] =
                        Call("TokenRepository.RevokeToken", "RevokeToken:ExecContext", [id |-> id])]
        /\ UNCHANGED <<users, tokens, now, cfg, last>>

\* the UPDATE of caller p runs (one statement, atomic in the database) and
\* the method returns its error
StoreRevokeTokenExec(p) ==
    /\ procs[p].pc = "RevokeToken:ExecContext"
    /\ LET r == RevokeToken(tokens, procs[p].arg.id) IN
       /\ tokens' = r.tokens
       /\ procs' = [procs EXCEPT ![p] =
                       [op |-> procs[p].op, pc |-> "done", arg |-> procs[p].arg,
                        err |-> r.err, out |-> NoOut]]
    /\ UNCHANGED <<users, now, cfg, last>>

\* caller p takes the result
StoreReturn(p) ==
    /\ procs[p].pc = "done"
    /\ procs' = [procs EXCEPT ![p] = Idle]
    /\ UNCHANGED <<users, tokens, now, cfg, last>>

NextStore ==
    \E p \in 1..MaxProcs :
        \/ StoreRevokeTokenCall(p)
        \/ StoreRevokeTokenExec(p)
        \/ StoreReturn(p)

SpecStore == InitStore /\ [][NextStore]_vars

\* the table tbl after a single revoke of the row with the given ID
RevokedOnce(tbl, id) ==
    [i \in 1..Len(tbl) |->
        IF ~tbl[i].deleted /\ tbl[i].id = id THEN [tbl[i] EXCEPT !.revoked = TRUE] ELSE tbl[i]]

\* C21: RevokeToken on the ID of a stored row succeeds, whether or not the
\* row was already revoked and whichever of two concurrent callers comes
\* first, and leaves the table as a single revoke of that row leaves it (a
\* further revoke changes nothing); on an ID no stored row has it fails with
\* ErrNotFound and changes nothing.
C21_RevokeTokenIdempotent ==
    [][\A p \in 1..MaxProcs :
         (procs[p].pc = "RevokeToken:ExecContext" /\ procs'[p].pc = "done") =>
            LET id == procs[p].arg.id
                stored == \E i \in 1..Len(tokens) : ~tokens[i].deleted /\ tokens[i].id = id
            IN  /\ tokens' = RevokedOnce(tokens, id)
                /\ RevokedOnce(tokens', id) = tokens'
                /\ stored => procs'[p].err = Nil
                /\ ~stored => (procs'[p].err = ErrNotFound /\ tokens' = tokens)]_vars

\* two callers revoked the same stored row and both succeeded
C21_Witness ==
    /\ procs[1].pc = "done" /\ procs[2].pc = "done"
    /\ procs[1].arg.id = procs[2].arg.id
    /\ procs[1].err = Nil /\ procs[2].err = Nil
    /\ \E i \in 1..Len(tokens) :
         ~tokens[i].deleted /\ tokens[i].id = procs[1].arg.id /\ tokens[i].revoked

(* --------------------------- end-to-end sequence ------------------------ *)

\* the session row GetTokenByRefreshToken finds for a refresh token is valid at t
SessionValidAt(r, t) ==
    LET row == GetTokenByRefreshToken(tokens, r).token IN row # NoRow /\ IsValid(row, t)

\* C22: after Register returned a pair (A1, R1), Refresh(R1) succeeds with a
\* new pair (A2, R2) and R1 can no longer be refreshed; Logout(A2, R2) then
\* succeeds, and a following ValidateToken(A2) fails with ErrTokenRevoked.
C22_RegisterRefreshLogoutValidate ==
    Succeeded("Register") =>
        \A t \in now..MaxTime :
            SessionValidAt(last.out.refresh_token, t) =>
                LET R1 == last.out.refresh_token
                    refreshed == RefreshIn(DB, t, R1)
                    A2 == refreshed.f.out.access_token
                    R2 == refreshed.f.out.refresh_token
                    loggedOut == LogoutIn(refreshed.W, t, A2, R2)
                IN  /\ refreshed.f.err = Nil
                    /\ RefreshIn(refreshed.W, t, R1).f.err # Nil
                    /\ loggedOut.f.err = Nil
                    /\ ValidateIn(loggedOut.W, t, A2).f.err = ErrTokenRevoked


(* ------------------------------ rotation -------------------------------- *)

\* goroutine p is in a Refresh that has revoked the old session and is about
\* to create the new one
AboutToCreate(p) == procs[p].pc = "Refresh:CreateToken"

\* the stored row with the given ID is revoked (a deleted row keeps the
\* flag it was deleted with)
RevokedRow(tbl, id) == \E i \in 1..Len(tbl) : tbl[i].id = id /\ tbl[i].revoked

\* C23: Refresh revokes before it creates: whenever a Refresh is about to
\* create its new session, and at the step that creates it, the session it
\* rotates away from is already revoked, so the old and the new session of
\* one rotation are never both active.
C23_RevokeBeforeCreate ==
    /\ [](\A p \in 1..MaxProcs :
            AboutToCreate(p) => RevokedRow(tokens, procs[p].loc.storedToken.id))
    /\ [][\A p \in 1..MaxProcs :
            (AboutToCreate(p) /\ procs'[p].pc = "done" /\ procs'[p].err = Nil) =>
                /\ Len(tokens') = Len(tokens) + 1
                /\ tokens'[Len(tokens')] = [procs[p].loc.token EXCEPT !.id = Len(tokens')]
                /\ RevokedRow(tokens', procs[p].loc.storedToken.id)
                /\ \A i \in 1..Len(tokens) :
                     tokens'[i].id = procs[p].loc.storedToken.id
                        => ~IsValid(tokens'[i], now)]_vars

\* a Refresh has returned its new pair: the first session is revoked and the
\* session the Refresh created is active
C23_Witness ==
    /\ \E p \in 1..MaxProcs :
         procs[p].op = "RefreshToken" /\ procs[p].pc = "done" /\ procs[p].err = Nil
    /\ Len(tokens) = 2
    /\ tokens[1].revoked
    /\ IsValid(tokens[2], now) /\ ~tokens[2].deleted


(* --------------------------- session lifecycle -------------------------- *)

\* row `after` is row `before` but for revoked having become true or the row
\* having been deleted
OnlyRevokedOrDeleted(before, after) ==
    /\ after.id = before.id
    /\ after.user_id = before.user_id
    /\ after.access_token = before.access_token
    /\ after.refresh_token = before.refresh_token
    /\ after.expires_at = before.expires_at
    /\ before.revoked => after.revoked
    /\ before.deleted => after.deleted

\* C24: revoked is terminal: no operation changes a stored session's revoked
\* flag from true to false, nor its owner, its token strings or its expiry;
\* a session row changes only by revoked becoming true or by being deleted.
C24_RevokedIsTerminal ==
    [][/\ Len(tokens') >= Len(tokens)
       /\ \A i \in 1..Len(tokens) : OnlyRevokedOrDeleted(tokens[i], tokens'[i])]_vars

\* the first session was revoked and then deleted by the cleanup, and a
\* Logout has just revoked the second one
C24_Witness ==
    /\ Succeeded("Logout")
    /\ Len(tokens) = 2
    /\ tokens[1].revoked /\ tokens[1].deleted
    /\ tokens[2].revoked /\ ~tokens[2].deleted


(* ------------------------------ store calls ----------------------------- *)

\* the number of store calls a call makes from frame f to its return
RECURSIVE StoreCalls(_, _, _, _)
StoreCalls(f, W, time, c) ==
    IF f.pc = "done" THEN 0
    ELSE LET r == Step(f, W, time, c) IN 1 + StoreCalls(r.f, r.W, time, c)

\* the requests of the five primary operations
RegisterCalls == {Call("Register", "Register:IsEmailExists", req) : req \in RegisterRequests}

LoginCalls == {Call("Login", "Login:GetUserByEmail", req) : req \in LoginRequests}

RefreshCalls ==
    {Call("RefreshToken", "Refresh:GetTokenByRefreshToken", [refresh_token |-> r]) :
        r \in PresentedRefreshTokens}

LogoutCalls ==
    {Call("Logout", "Logout:GetTokenByRefreshToken", [access_token |-> a, refresh_token |-> r]) :
        a \in IssuedAccessTokens \cup {GarbageToken}, r \in PresentedRefreshTokens}

RevokeAllCalls ==
    {Call("RevokeAllTokens", "RevokeAll:RevokeUserTokens", [user_id |-> id]) : id \in UserIDs}

PrimaryCalls == RegisterCalls \cup LoginCalls \cup RefreshCalls \cup LogoutCalls \cup RevokeAllCalls

\* C25 as stated: each of register, login, refresh, logout and revoke-all
\* makes at most two sequential store calls between its start and its
\* return, on every path.
C25_AtMostTwoStoreCalls ==
    \A f \in PrimaryCalls : StoreCalls(f, DB, now, cfg) <= 2

\* C25 as the code has it: login and logout make at most two sequential
\* store calls and revoke-all exactly one, but register and refresh make up
\* to four, and exactly four whenever they succeed (register: email check,
\* username check, identity insert, session insert; refresh: session lookup,
\* identity lookup, revoke, session insert).
C25_AtMostFourStoreCalls ==
    /\ \A f \in LoginCalls \cup LogoutCalls : StoreCalls(f, DB, now, cfg) <= 2
    /\ \A f \in RevokeAllCalls : StoreCalls(f, DB, now, cfg) = 1
    /\ \A f \in RegisterCalls \cup RefreshCalls :
         /\ StoreCalls(f, DB, now, cfg) <= 4
         /\ Run(f, DB, now, cfg).f.err = Nil => StoreCalls(f, DB, now, cfg) = 4

\* a session is stored whose refresh token a Refresh would rotate with four
\* store calls, and a Logout of it would take two
C25_Witness ==
    /\ last = Idle
    /\ \E f \in RefreshCalls :
         Run(f, DB, now, cfg).f.err = Nil /\ StoreCalls(f, DB, now, cfg) = 4
    /\ \E f \in LogoutCalls :
         Run(f, DB, now, cfg).f.err = Nil /\ StoreCalls(f, DB, now, cfg) = 2

(* ------------------------ authenticated endpoints ----------------------- *)

\* middleware.Auth for a request with the header "Authorization: Bearer <t>":
\* it answers 401, or it passes the request on with the token's claims
Auth(t, time) ==
    LET v == JWTValidateToken(t, time) IN
    IF v.err # Nil
    THEN [passed |-> FALSE, status |-> StatusUnauthorized, claims |-> NoClaims]
    ELSE [passed |-> TRUE, status |-> StatusOK, claims |-> v.claims]

\* GET /me: Auth, then Handler.GetCurrentUser
RouteMe(W, time, t) ==
    LET a == Auth(t, time) IN
    IF ~a.passed THEN a.status
    ELSE Responds(Run(Call("GetCurrentUser", "GetCurrentUser:GetUserByID",
                           [user_id |-> a.claims.user_id]), W, time, cfg).f.err,
                  StatusOK)

\* POST /auth/revoke-all: Auth, then Handler.RevokeAllTokens
RouteRevokeAll(W, time, t) ==
    LET a == Auth(t, time) IN
    IF ~a.passed THEN a.status
    ELSE Responds(RevokeAllIn(W, time, a.claims.user_id).f.err, StatusOK)

\* the access tokens of the sessions the call that just returned has revoked
JustRevoked ==
    IF Succeeded("Logout")
    THEN {tokens[i].access_token : i \in {j \in Rows(tokens) :
              tokens[j].revoked /\ tokens[j].refresh_token = last.arg.refresh_token}}
    ELSE IF Succeeded("RevokeAllTokens")
    THEN {tokens[i].access_token : i \in {j \in Rows(tokens) :
              tokens[j].revoked /\ tokens[j].user_id = last.arg.user_id}}
    ELSE {}

\* C26: after Logout or RevokeAllSessions has revoked a session, a request to
\* GET /me or POST /auth/revoke-all that carries the session's access token
\* is answered with 401, although the token's own expiry has not passed.
C26_RevocationEnforcedAtEndpoints ==
    \A t \in JustRevoked :
        JWTValidateToken(t, now).err = Nil =>
            /\ RouteMe(DB, now, t) = StatusUnauthorized
            /\ RouteRevokeAll(DB, now, t) = StatusUnauthorized

\* the call that just returned issued a token pair
IssuedPair == Succeeded("Login") \/ Succeeded("Register") \/ Succeeded("RefreshToken")

\* C27: no operation issues a token pair or creates a session for an
\* identity whose status is not active: Refresh, like Login, fails when the
\* identity owning the session has been disabled or suspended.
C27_PairsOnlyForActiveIdentities ==
    IssuedPair =>
        \E i \in 1..Len(users) : users[i].id = last.out.user.id /\ IsActive(users[i])

\* goroutine p has returned from a call of the given operation
Finished(p, op) == procs[p].op = op /\ procs[p].pc = "done"

\* C28: RevokeAllSessions holds against in-flight refreshes: once a
\* RevokeAllSessions of an identity and a concurrent Refresh with a refresh
\* token of that identity have both returned, in whichever order their store
\* calls ran, no session that holds that refresh token or the refresh token
\* the Refresh returned is active.
C28_RevokeAllBeatsRefresh ==
    \A p, q \in 1..MaxProcs :
        (Finished(p, "RefreshToken") /\ Finished(q, "RevokeAllTokens")) =>
            \A i \in Rows(tokens) :
                (\/ tokens[i].refresh_token = procs[p].arg.refresh_token
                 \/ (procs[p].err = Nil
                       /\ tokens[i].refresh_token = procs[p].out.refresh_token))
                    => ~IsValid(tokens[i], now)

\* C29: Refresh succeeds only for a refresh token that itself passes the
\* token issuer's validation: a refresh token whose own claimed expiry has
\* passed is rejected even when its session row is unexpired and not revoked.
C29_RefreshValidatesItsToken ==
    Succeeded("RefreshToken") =>
        JWTValidateToken(last.arg.refresh_token, now).err = Nil

\* C30: a refresh token is never accepted as a bearer credential: for every
\* token pair that was issued, ValidateToken and the Auth middleware reject
\* the pair's refresh-token string, while the session is active and after it
\* has been revoked.
C30_RefreshTokenIsNoBearer ==
    \A i \in 1..Len(tokens) :
        /\ ValidateIn(DB, now, tokens[i].refresh_token).f.err # Nil
        /\ ~Auth(tokens[i].refresh_token, now).passed

====
